---- MODULE Spec2Model ----
(***************************************************************************)
(* IAM attack path visualizer: the scanner's trust-policy parser, admin    *)
(* classification and path derivation (src/src/aws_scanner.py) and the     *)
(* graph assembly (src/src/graph_builder.py).                              *)
(*                                                                         *)
(* Python strings that the code searches or splits are token sequences in  *)
(* which the substring ':role/' is the single token ROLE (':role/' cannot  *)
(* overlap itself, so its occurrences in a string are exactly the ROLE     *)
(* tokens).  Entity names are strings of the same kind, so the result of   *)
(* a split can be compared with a name.  Policy names, effects and tags    *)
(* are only compared for equality and stay atomic.                         *)
(***************************************************************************)
EXTENDS Integers, Sequences, FiniteSets, TLC

VARIABLES
    pc,               \* position of the scanner inside / after scan_all
    scans,            \* number of scan_all invocations started
    users,            \* self.users
    roles,            \* self.roles
    groups,           \* self.groups
    admin_entities,   \* self.admin_entities
    privilege_paths,  \* self.privilege_paths
    collected,        \* what the running / latest scan_all read from IAM
    base,             \* len(self.privilege_paths) when the latest derivation began
    graph,            \* the DiGraph returned by build_privilege_graph
    doc,              \* argument of a direct _parse_trust_policy call
    parsed,           \* outcome of that call
    viz               \* the IAMVisualizer: its graph, whether create_graph ran

vars == <<pc, scans, users, roles, groups, admin_entities, privilege_paths,
          collected, base, graph, doc, parsed, viz>>

scannerVars == <<pc, scans, users, roles, groups, admin_entities,
                 privilege_paths, collected, base, graph>>

-----------------------------------------------------------------------------
(* Bounds *)

MaxStmts == 2         \* statements of a parsed document
MaxList == 1          \* elements of an AWS list of a parsed document
MaxUsers == 2         \* users of one list_users answer
MaxRoles == 2         \* roles of one list_roles answer
MaxGroups == 2        \* groups of one list_groups answer
MaxMemberships == 2   \* groups of one user
MaxTrusted == 2       \* principals of a scanned role's trust policy
MaxScans == 2         \* scan_all invocations on one scanner

\* main() calls scan_all once on a new scanner.
ScansOfMain == 1

-----------------------------------------------------------------------------
(* Python values *)

ROLE == ":role/"

\* An element of a principal list: a string (s = its tokens), an integer
\* (not iterable) or a mapping (s = its keys).
StrE(s) == [k |-> "str", s |-> s]
IntE == [k |-> "int", s |-> <<>>]
DictE(keys) == [k |-> "dict", s |-> keys]

RoleArnD == <<"arn:aws:iam::1", ROLE, "D">>
RoleArnA == <<"arn:aws:iam::1", ROLE, "A">>
RoleArnNested == <<"arn:aws:iam::1", ROLE, "A", ROLE, "D">>
RoleArnEmpty == <<"arn:aws:iam::1", ROLE>>
ServiceEc2 == <<"ec2.amazonaws.com">>

\* The value under Principal['AWS'] or Principal['Service'].
AbsentF == [k |-> "absent", s |-> <<>>, v |-> <<>>]
StrF(s) == [k |-> "str", s |-> s, v |-> <<>>]
ListF(v) == [k |-> "list", s |-> <<>>, v |-> v]
IntF == [k |-> "int", s |-> <<>>, v |-> <<>>]
DictF(keys) == [k |-> "dict", s |-> <<>>, v |-> keys]

SeqsUpTo(S, n) == UNION {[1..m -> S] : m \in 0..n}

\* A statement of a trust policy: a mapping (k = "map") with an optional
\* Effect and an optional Principal, or anything else (k = "str").
\* pk is the shape of the Principal value: "absent" (key missing), "map",
\* "star" (the string "*") or "none" (None).
Stmt(effect, pk, aws, service) ==
    [k |-> "map", effect |-> effect, pk |-> pk, aws |-> aws, service |-> service]
NonMapStmt ==
    [k |-> "str", effect |-> "absent", pk |-> "absent", aws |-> AbsentF, service |-> AbsentF]
\* The mapping without keys, {}.
EmptyStmt == Stmt("absent", "absent", AbsentF, AbsentF)

\* A trust policy document: a mapping (k = "map") or None (k = "none");
\* sk is the shape of its Statement value: "absent", "list", "map" (a single
\* statement object, stmts = <<that object>>) or "int".
Doc(sk, stmts) == [k |-> "map", sk |-> sk, stmts |-> stmts]
NoneDoc == [k |-> "none", sk |-> "absent", stmts |-> <<>>]

-----------------------------------------------------------------------------
(* AWSIAMScanner._parse_trust_policy *)

\* Mutant: a string is not wrapped in a list, and extend takes it apart.
PrincipalsUnwrapped(field) ==
    CASE field.k = "absent" -> [items |-> <<>>, exc |-> FALSE]
      [] field.k = "str"    -> [items |-> [i \in 1..Len(field.s) |-> StrE(<<field.s[i]>>)],
                                exc |-> FALSE]
      [] field.k = "list"   -> [items |-> field.v, exc |-> FALSE]
      [] field.k = "dict"   -> [items |-> field.v, exc |-> FALSE]
      [] OTHER              -> [items |-> <<>>, exc |-> TRUE]

\* isinstance(x, str) -> [x]; then trusted.extend(x).  items is what extend
\* appends, exc whether it raises (an int or None is not iterable; a mapping
\* iterates over its keys).
Principals(field) ==
    CASE field.k = "absent" -> [items |-> <<>>, exc |-> FALSE]
      [] field.k = "str"    -> [items |-> <<StrE(field.s)>>, exc |-> FALSE]
      [] field.k = "list"   -> [items |-> field.v, exc |-> FALSE]
      [] field.k = "dict"   -> [items |-> field.v, exc |-> FALSE]
      [] OTHER              -> [items |-> <<>>, exc |-> TRUE]

\* Mutant: every statement but a Deny contributes.
StatementStepNotDeny(acc, st) ==
    IF st.k # "map" THEN [acc EXCEPT !.exc = TRUE]
    ELSE IF st.effect = "Deny" THEN acc
    ELSE CASE st.pk = "absent" -> acc
           [] st.pk = "star"   -> acc
           [] st.pk = "none"   -> [acc EXCEPT !.exc = TRUE]
           [] OTHER ->
                LET a == Principals(st.aws)
                    t1 == acc.trusted \o a.items
                    b == Principals(st.service)
                IN  IF a.exc THEN [acc EXCEPT !.exc = TRUE]
                    ELSE IF b.exc THEN [trusted |-> t1, exc |-> TRUE]
                    ELSE [trusted |-> t1 \o b.items, exc |-> FALSE]

\* The body of the for loop for one statement; acc = [trusted, exc].
StatementStep(acc, st) ==
    IF st.k # "map" THEN [acc EXCEPT !.exc = TRUE]          \* str has no .get
    ELSE IF st.effect # "Allow" THEN acc
    ELSE CASE st.pk = "absent" -> acc                       \* .get default {}
           [] st.pk = "star"   -> acc                       \* 'AWS' in "*" is False
           [] st.pk = "none"   -> [acc EXCEPT !.exc = TRUE] \* 'AWS' in None
           [] OTHER ->
                LET a == Principals(st.aws)
                    t1 == acc.trusted \o a.items
                    b == Principals(st.service)
                IN  IF a.exc THEN [acc EXCEPT !.exc = TRUE]
                    ELSE IF b.exc THEN [trusted |-> t1, exc |-> TRUE]
                    ELSE [trusted |-> t1 \o b.items, exc |-> FALSE]

RECURSIVE ParseStatements(_, _, _)
ParseStatements(stmts, i, acc) ==
    IF i > Len(stmts) \/ acc.exc THEN acc
    ELSE ParseStatements(stmts, i + 1, StatementStep(acc, stmts[i]))

\* The try block: trust_policy.get('Statement', []) and the loop over it.
ParseBody(d) ==
    LET empty == [trusted |-> <<>>, exc |-> FALSE]
    IN  IF d.k # "map" THEN [empty EXCEPT !.exc = TRUE]
        ELSE CASE d.sk = "absent" -> empty
               [] d.sk = "list"   -> ParseStatements(d.stmts, 1, empty)
               [] d.sk = "map"    ->                 \* iterates the keys, which are str
                    IF d.stmts[1] = EmptyStmt THEN empty ELSE [empty EXCEPT !.exc = TRUE]
               [] OTHER           -> [empty EXCEPT !.exc = TRUE]  \* int is not iterable

\* The function without its try/except: the exception leaves the function.
ParseTrustPolicyUnguarded(d) ==
    LET r == ParseBody(d)
    IN  [trusted |-> r.trusted, warned |-> FALSE, raised |-> r.exc]

\* except Exception: print a warning; return trusted.
ParseTrustPolicy(d) ==
    LET r == ParseBody(d)
    IN  [trusted |-> r.trusted, warned |-> r.exc, raised |-> FALSE]

-----------------------------------------------------------------------------
(* Trust policy documents given to a direct _parse_trust_policy call *)

ParseElems == {StrE(RoleArnD), StrE(ServiceEc2), IntE}

AwsFields ==
    {AbsentF, StrF(RoleArnD), IntF, DictF(<<StrE(<<"k">>)>>)}
        \cup {ListF(v) : v \in SeqsUpTo(ParseElems, MaxList)}

ServiceFields == {AbsentF, StrF(ServiceEc2), ListF(<<StrE(ServiceEc2)>>), IntF}

AllowStmts ==
    {Stmt("Allow", "map", a, s) : a \in AwsFields, s \in ServiceFields}
        \cup {Stmt("Allow", pk, AbsentF, AbsentF) : pk \in {"absent", "star", "none"}}

OtherStmts ==
    {Stmt(e, "map", p[1], p[2]) :
        e \in {"Deny", "allow", "absent"},
        p \in {<<StrF(RoleArnD), AbsentF>>, <<AbsentF, StrF(ServiceEc2)>>,
               <<IntF, AbsentF>>}}

StmtPool == AllowStmts \cup OtherStmts \cup {NonMapStmt, EmptyStmt}

DocPool ==
    {Doc("list", ss) : ss \in SeqsUpTo(StmtPool, MaxStmts)}
        \cup {Doc("map", <<st>>) : st \in StmtPool \ {NonMapStmt}}
        \cup {Doc("absent", <<>>), Doc("int", <<>>), NoneDoc}

-----------------------------------------------------------------------------
(* Entity records built by _scan_users, _scan_roles and _scan_groups *)

Arn(kind, name) == <<"arn:aws:iam::1", kind>> \o name

UserData(name, grps, policies) ==
    [name |-> name, arn |-> Arn(":user/", name), type |-> "user",
     groups |-> grps, policies |-> policies]

GroupData(name, policies) ==
    [name |-> name, arn |-> Arn(":group/", name), type |-> "group",
     policies |-> policies]

\* role_data; raw = [name, doc, policies] is one record of list_roles with
\* its attached policy names.
RoleData(raw) ==
    [name |-> raw.name, arn |-> Arn(ROLE, raw.name), type |-> "role",
     trust_policy |-> raw.doc,
     trusted_entities |-> ParseTrustPolicy(raw.doc).trusted,
     policies |-> raw.policies]

\* The loop of _scan_roles: an exception out of _parse_trust_policy ends the
\* loop in the outer except, keeping the roles appended so far.
RECURSIVE ScanRolesLoop(_, _, _)
ScanRolesLoop(listing, i, acc) ==
    IF i > Len(listing) THEN acc
    ELSE IF ParseTrustPolicy(listing[i].doc).raised THEN acc
    ELSE ScanRolesLoop(listing, i + 1, Append(acc, RoleData(listing[i])))

-----------------------------------------------------------------------------
(* AWSIAMScanner._identify_admin_entities *)

ADMIN_POLICIES == {"AdministratorAccess", "PowerUserAccess", "IAMFullAccess"}

\* Mutant: only the first attached policy is looked at.
HasAdminPolicyFirst(entity) ==
    entity.policies # <<>> /\ entity.policies[1] \in ADMIN_POLICIES

\* any(policy in self.ADMIN_POLICIES for policy in entity['policies'])
HasAdminPolicy(entity) ==
    \E i \in 1..Len(entity.policies) : entity.policies[i] \in ADMIN_POLICIES

RECURSIVE AddAdmins(_, _, _)
AddAdmins(entities, i, admins) ==
    IF i > Len(entities) THEN admins
    ELSE AddAdmins(entities, i + 1,
                   IF HasAdminPolicy(entities[i])
                   THEN admins \cup {entities[i].name} ELSE admins)

IdentifyAdminEntities(us, rs, gs, admins) ==
    AddAdmins(gs, 1, AddAdmins(rs, 1, AddAdmins(us, 1, admins)))

-----------------------------------------------------------------------------
(* AWSIAMScanner._extract_role_name and _build_privilege_paths *)

HasRoleToken(s) == \E i \in 1..Len(s) : s[i] = ROLE

\* Mutant: s.split(':role/')[1], what lies between the first two ':role/'.
AfterFirstRole(s) ==
    LET i == CHOOSE j \in 1..Len(s) : s[j] = ROLE /\ \A m \in 1..(j - 1) : s[m] # ROLE
        rest == SubSeq(s, i + 1, Len(s))
    IN  IF HasRoleToken(rest)
        THEN SubSeq(rest, 1, (CHOOSE j \in 1..Len(rest) :
                                 rest[j] = ROLE /\ \A m \in 1..(j - 1) : rest[m] # ROLE) - 1)
        ELSE rest

\* s.split(':role/')[-1]: what follows the last ':role/'.
AfterLastRole(s) ==
    LET i == CHOOSE j \in 1..Len(s) :
                 s[j] = ROLE /\ \A m \in (j + 1)..Len(s) : s[m] # ROLE
    IN  SubSeq(s, i + 1, Len(s))

\* [exc, none, name]: raises, returns None, or returns name.
\* "':role/' in x" raises for an int, tests the keys of a mapping; a mapping
\* has no split.
ExtractRoleName(e) ==
    LET none == [exc |-> FALSE, none |-> TRUE, name |-> <<>>]
        fail == [exc |-> TRUE, none |-> FALSE, name |-> <<>>]
    IN  CASE e.k = "str" ->
                IF HasRoleToken(e.s)
                THEN [exc |-> FALSE, none |-> FALSE, name |-> AfterLastRole(e.s)]
                ELSE none
          [] e.k = "dict" -> IF HasRoleToken(e.s) THEN fail ELSE none
          [] OTHER -> fail

UserPath(user, group_name) ==
    [type |-> "user_to_group_admin",
     path |-> <<user.name, group_name>>,
     risk |-> "HIGH",
     description |-> <<"User", user.name, "has admin through group", group_name>>]

RolePath(trusted_role_name, role) ==
    [type |-> "role_chain_admin",
     path |-> <<trusted_role_name, role.name>>,
     risk |-> "CRITICAL",
     description |-> <<"Role", trusted_role_name, "can assume admin role", role.name>>]

\* Mutant: only the first group of the user is looked at.
UserGroupsLoopFirst(user, j, admins, paths) ==
    IF user.groups # <<>> /\ user.groups[1] \in admins
    THEN Append(paths, UserPath(user, user.groups[1]))
    ELSE paths

\* for group_name in user['groups']
RECURSIVE UserGroupsLoop(_, _, _, _)
UserGroupsLoop(user, j, admins, paths) ==
    IF j > Len(user.groups) THEN paths
    ELSE UserGroupsLoop(user, j + 1, admins,
            IF user.groups[j] \in admins
            THEN Append(paths, UserPath(user, user.groups[j]))
            ELSE paths)

\* for user in self.users
RECURSIVE UsersLoop(_, _, _, _)
UsersLoop(us, i, admins, paths) ==
    IF i > Len(us) THEN paths
    ELSE UsersLoop(us, i + 1, admins, UserGroupsLoop(us[i], 1, admins, paths))

\* if trusted_role_name: (None and '' are false)
Truthy(r) == ~r.none /\ r.name # <<>>

\* for trusted in role['trusted_entities']; acc = [paths, exc]
RECURSIVE TrustedLoop(_, _, _)
TrustedLoop(role, j, acc) ==
    IF j > Len(role.trusted_entities) \/ acc.exc THEN acc
    ELSE LET r == ExtractRoleName(role.trusted_entities[j])
         IN  TrustedLoop(role, j + 1,
                IF r.exc THEN [acc EXCEPT !.exc = TRUE]
                ELSE IF Truthy(r)
                THEN [acc EXCEPT !.paths = Append(@, RolePath(r.name, role))]
                ELSE acc)

\* Mutant: the trust policy of every role is followed, admin or not.
RECURSIVE RolesLoopAnyRole(_, _, _, _)
RolesLoopAnyRole(rs, i, admins, acc) ==
    IF i > Len(rs) \/ acc.exc THEN acc
    ELSE RolesLoopAnyRole(rs, i + 1, admins, TrustedLoop(rs[i], 1, acc))

\* for role in self.roles
RECURSIVE RolesLoop(_, _, _, _)
RolesLoop(rs, i, admins, acc) ==
    IF i > Len(rs) \/ acc.exc THEN acc
    ELSE RolesLoop(rs, i + 1, admins,
            IF rs[i].name \in admins THEN TrustedLoop(rs[i], 1, acc) ELSE acc)

\* Mutant: the role chains are derived before the user paths.
BuildPrivilegePathsRolesFirst(us, rs, admins, paths) ==
    LET r == RolesLoop(rs, 1, admins, [paths |-> paths, exc |-> FALSE])
    IN  IF r.exc THEN r
        ELSE [paths |-> UsersLoop(us, 1, admins, r.paths), exc |-> FALSE]

\* The whole of _build_privilege_paths: the new value of self.privilege_paths
\* and whether an exception leaves the method.
BuildPrivilegePaths(us, rs, admins, paths) ==
    RolesLoop(rs, 1, admins,
              [paths |-> UsersLoop(us, 1, admins, paths), exc |-> FALSE])

-----------------------------------------------------------------------------
(* build_privilege_graph (networkx.DiGraph) *)

EmptyGraph == [nodes |-> {}, edges |-> {}]

HasNode(G, n) == \E x \in G.nodes : x.name = n

\* A node that add_edge created: it has no attributes.
BareNode(n) ==
    [name |-> n, attrs |-> FALSE, type |-> "", has_admin |-> FALSE, arn |-> <<>>]

\* G.add_node(name, type=, has_admin=, arn=): creates the node or updates
\* its attributes.
AddNode(G, n, type, has_admin, arn) ==
    [G EXCEPT !.nodes =
        {x \in @ : x.name # n}
            \cup {[name |-> n, attrs |-> TRUE, type |-> type,
                   has_admin |-> has_admin, arn |-> arn]}]

\* Mutant: the edge is added only between nodes the graph already has.
AddEdgeKnownEndpoints(G, u, v, rel) ==
    IF HasNode(G, u) /\ HasNode(G, v)
    THEN [G EXCEPT !.edges = {e \in @ : ~(e.src = u /\ e.dst = v)}
                                \cup {[src |-> u, dst |-> v, relationship |-> rel]}]
    ELSE G

\* G.add_edge(u, v, relationship=): creates missing endpoints, creates the
\* edge or updates its attribute.
AddEdge(G, u, v, rel) ==
    [nodes |-> G.nodes \cup {BareNode(n) : n \in {x \in {u, v} : ~HasNode(G, x)}},
     edges |-> {e \in G.edges : ~(e.src = u /\ e.dst = v)}
                  \cup {[src |-> u, dst |-> v, relationship |-> rel]}]

RECURSIVE MemberEdges(_, _, _)
MemberEdges(G, user, j) ==
    IF j > Len(user.groups) THEN G
    ELSE MemberEdges(AddEdge(G, user.name, user.groups[j], "member_of"), user, j + 1)

\* The three node loops: the same body for type 'user', 'group' and 'role',
\* but for the user's group edges.
RECURSIVE EntityNodes(_, _, _, _, _)
EntityNodes(G, entities, i, admins, type) ==
    IF i > Len(entities) THEN G
    ELSE LET e == entities[i]
             G1 == AddNode(G, e.name, type, e.name \in admins, e.arn)
         IN  EntityNodes(IF type = "user" THEN MemberEdges(G1, e, 1) ELSE G1,
                         entities, i + 1, admins, type)

RECURSIVE StepEdges(_, _, _)
StepEdges(G, steps, i) ==
    IF i > Len(steps) - 1 THEN G
    ELSE StepEdges(AddEdge(G, steps[i], steps[i + 1], "privilege_escalation"),
                   steps, i + 1)

RECURSIVE PathEdges(_, _, _)
PathEdges(G, paths, i) ==
    IF i > Len(paths) THEN G
    ELSE PathEdges(IF Len(paths[i].path) >= 2 THEN StepEdges(G, paths[i].path, 1) ELSE G,
                   paths, i + 1)

\* data is the dictionary scan_all returns.
BuildPrivilegeGraph(data) ==
    LET G1 == EntityNodes(EmptyGraph, data.users, 1, data.admin_entities, "user")
        G2 == EntityNodes(G1, data.groups, 1, data.admin_entities, "group")
        G3 == EntityNodes(G2, data.roles, 1, data.admin_entities, "role")
    IN  PathEdges(G3, data.privilege_paths, 1)

-----------------------------------------------------------------------------
(* IAMVisualizer.create_graph (networkx.DiGraph) *)

\* self.colors, the entries create_graph reads.
Colors ==
    [admin |-> "#FF4444", user |-> "#87CEEB", group |-> "#DDA0DD", role |-> "#F0E68C"]

\* A node that add_edge created: it has no attributes.
VizBareNode(n) ==
    [name |-> n, attrs |-> FALSE, node_type |-> "", color |-> "", is_admin |-> FALSE]

\* self.graph.add_node(name, node_type=, color=, is_admin=)
VizAddNode(G, n, node_type, admins) ==
    [G EXCEPT !.nodes =
        {x \in @ : x.name # n}
            \cup {[name |-> n, attrs |-> TRUE, node_type |-> node_type,
                   color |-> IF n \in admins THEN Colors.admin ELSE Colors[node_type],
                   is_admin |-> n \in admins]}]

\* self.graph.add_edge(u, v, relationship=)
VizAddEdge(G, u, v, rel) ==
    [nodes |-> G.nodes \cup {VizBareNode(n) : n \in {x \in {u, v} : ~HasNode(G, x)}},
     edges |-> {e \in G.edges : ~(e.src = u /\ e.dst = v)}
                  \cup {[src |-> u, dst |-> v, relationship |-> rel]}]

RECURSIVE VizMemberEdges(_, _, _)
VizMemberEdges(G, user, j) ==
    IF j > Len(user.groups) THEN G
    ELSE VizMemberEdges(VizAddEdge(G, user.name, user.groups[j], "member_of"),
                        user, j + 1)

RECURSIVE VizUsers(_, _, _, _)
VizUsers(G, us, i, admins) ==
    IF i > Len(us) THEN G
    ELSE VizUsers(VizMemberEdges(VizAddNode(G, us[i].name, "user", admins), us[i], 1),
                  us, i + 1, admins)

RECURSIVE VizGroups(_, _, _, _)
VizGroups(G, gs, i, admins) ==
    IF i > Len(gs) THEN G
    ELSE VizGroups(VizAddNode(G, gs[i].name, "group", admins), gs, i + 1, admins)

\* The body of the loop over role['trusted_entities'].  "':role/' in trusted"
\* raises for an int and tests the keys of a mapping, which has no split;
\* the edge is added when the graph has the node trusted_role at this time.
AssumeEdge(G, trusted, role_name) ==
    CASE trusted.k = "str" ->
            IF HasRoleToken(trusted.s)
            THEN LET trusted_role == AfterLastRole(trusted.s)
                 IN  [graph |-> IF HasNode(G, trusted_role)
                                THEN VizAddEdge(G, trusted_role, role_name, "can_assume")
                                ELSE G,
                      exc |-> FALSE]
            ELSE [graph |-> G, exc |-> FALSE]
      [] trusted.k = "dict" -> [graph |-> G, exc |-> HasRoleToken(trusted.s)]
      [] OTHER -> [graph |-> G, exc |-> TRUE]

\* acc = [graph, exc]; an exception ends create_graph, self.graph keeps what
\* was added before it.
RECURSIVE AssumeEdges(_, _, _)
AssumeEdges(acc, role, j) ==
    IF j > Len(role.trusted_entities) \/ acc.exc THEN acc
    ELSE AssumeEdges(AssumeEdge(acc.graph, role.trusted_entities[j], role.name),
                     role, j + 1)

RECURSIVE VizRoles(_, _, _, _)
VizRoles(acc, rs, i, admins) ==
    IF i > Len(rs) \/ acc.exc THEN acc
    ELSE VizRoles(AssumeEdges([acc EXCEPT !.graph =
                                   VizAddNode(@, rs[i].name, "role", admins)],
                              rs[i], 1),
                  rs, i + 1, admins)

\* create_graph on the graph G of the instance; [graph, exc].
CreateGraph(G, scan_data) ==
    LET admins == scan_data.admin_entities
        G1 == VizUsers(G, scan_data.users, 1, admins)
        G2 == VizGroups(G1, scan_data.groups, 1, admins)
    IN  VizRoles([graph |-> G2, exc |-> FALSE], scan_data.roles, 1, admins)

-----------------------------------------------------------------------------
(* scan_all, step by step, and the calls of build_privilege_graph and of
   create_graph on its result *)

\* The dictionary scan_all returns (its summary counters left out).
ScanResult ==
    [users |-> users, roles |-> roles, groups |-> groups,
     admin_entities |-> admin_entities, privilege_paths |-> privilege_paths]

\* self._scan_users(): listing is what list_users, list_groups_for_user and
\* list_attached_user_policies answer.  A failed list_groups_for_user or
\* list_attached_* call leaves the empty list in the record, and a failed
\* page ends the loop: both are listings with fewer entries.
ScanUsers(listings, maxScans) ==
    /\ pc \in {"init", "returned", "graphed"}
    /\ scans < maxScans
    /\ \E listing \in listings :
        /\ users' = users \o listing
        /\ collected' = [users |-> listing, roles |-> <<>>, groups |-> <<>>]
    /\ scans' = scans + 1
    /\ pc' = "roles"
    /\ UNCHANGED <<roles, groups, admin_entities, privilege_paths, base, graph,
                   doc, parsed, viz>>

\* self._scan_roles()
ScanRoles(listings) ==
    /\ pc = "roles"
    /\ \E listing \in listings :
        LET new == ScanRolesLoop(listing, 1, <<>>)
        IN  /\ roles' = roles \o new
            /\ collected' = [collected EXCEPT !.roles = new]
    /\ pc' = "groups"
    /\ UNCHANGED <<scans, users, groups, admin_entities, privilege_paths, base,
                   graph, doc, parsed, viz>>

\* self._scan_groups()
ScanGroups(listings) ==
    /\ pc = "groups"
    /\ \E listing \in listings :
        /\ groups' = groups \o listing
        /\ collected' = [collected EXCEPT !.groups = listing]
    /\ pc' = "identify"
    /\ UNCHANGED <<scans, users, roles, admin_entities, privilege_paths, base,
                   graph, doc, parsed, viz>>

\* self._identify_admin_entities()
IdentifyAdmin ==
    /\ pc = "identify"
    /\ admin_entities' = IdentifyAdminEntities(users, roles, groups, admin_entities)
    /\ pc' = "build"
    /\ UNCHANGED <<scans, users, roles, groups, privilege_paths, collected, base,
                   graph, doc, parsed, viz>>

\* self._build_privilege_paths() and the return of scan_all; an exception
\* leaves scan_all, and main exits.
BuildPaths ==
    /\ pc = "build"
    /\ LET r == BuildPrivilegePaths(users, roles, admin_entities, privilege_paths)
       IN  /\ privilege_paths' = r.paths
           /\ pc' = IF r.exc THEN "raised" ELSE "returned"
    /\ base' = Len(privilege_paths)
    /\ UNCHANGED <<scans, users, roles, groups, admin_entities, collected, graph,
                   doc, parsed, viz>>

\* graph = build_privilege_graph(iam_data)
BuildGraph ==
    /\ pc = "returned"
    /\ graph' = BuildPrivilegeGraph(ScanResult)
    /\ pc' = "graphed"
    /\ UNCHANGED <<scans, users, roles, groups, admin_entities, privilege_paths,
                   collected, base, doc, parsed, viz>>

\* IAMVisualizer(): self.graph = nx.DiGraph()
FreshVisualizer == [created |-> FALSE, raised |-> FALSE, graph |-> EmptyGraph]

\* viz = IAMVisualizer(); viz.create_graph(scan_data)
VisualizerMain ==
    /\ pc = "returned"
    /\ ~viz.created
    /\ LET r == CreateGraph(FreshVisualizer.graph, ScanResult)
       IN  viz' = [created |-> TRUE, raised |-> r.exc, graph |-> r.graph]
    /\ UNCHANGED <<scannerVars, doc, parsed>>

-----------------------------------------------------------------------------
(* What IAM answers to the scanner *)

Names == {<<"A">>, <<"D">>}

NoRepeat(S, max) ==
    {l \in SeqsUpTo(S, max) : \A i, j \in 1..Len(l) : i # j => l[i] # l[j]}

\* An answer lists every entity once: names are unique within a type.
Listings(pool, max) ==
    UNION {{l \in [1..Len(ns) -> pool] : \A i \in 1..Len(ns) : l[i].name = ns[i]} :
              ns \in NoRepeat(Names, max)}

ReadOnly == <<"ReadOnlyAccess">>
AdminAccess == <<"AdministratorAccess">>
PowerUser == <<"PowerUserAccess">>
ReadAndIam == <<"ReadOnlyAccess", "IAMFullAccess">>

AllowAws(field) == Doc("list", <<Stmt("Allow", "map", field, AbsentF)>>)
RawRole(name, d, policies) == [name |-> name, doc |-> d, policies |-> policies]

\* Many users and groups, few roles.
UserListings ==
    Listings({UserData(n, g, p) : n \in Names, g \in NoRepeat(Names, MaxMemberships),
                                  p \in {<<>>, ReadAndIam}},
             MaxUsers)

GroupListings ==
    Listings({GroupData(n, p) : n \in Names, p \in {ReadOnly, AdminAccess}}, MaxGroups)

FewRoleListings ==
    {<<>>,
     <<RawRole(<<"D">>, AllowAws(StrF(RoleArnA)), PowerUser)>>,
     <<RawRole(<<"A">>, AllowAws(StrF(RoleArnD)), <<>>),
       RawRole(<<"D">>, AllowAws(ListF(<<StrE(ServiceEc2), StrE(RoleArnA)>>)), AdminAccess)>>,
     <<RawRole(<<"A">>, AllowAws(ListF(<<StrE(RoleArnD), IntE>>)), ReadAndIam)>>}

\* Few users and groups, many roles and trust policies.
FewUserListings ==
    {<<>>,
     <<UserData(<<"A">>, <<<<"D">>, <<"A">>>>, <<>>)>>,
     <<UserData(<<"D">>, <<<<"A">>>>, <<>>),
       UserData(<<"A">>, <<<<"A">>, <<"D">>>>, ReadAndIam)>>}

FewGroupListings ==
    {<<>>,
     <<GroupData(<<"A">>, AdminAccess)>>,
     <<GroupData(<<"D">>, PowerUser), GroupData(<<"A">>, AdminAccess)>>}

TrustElems == {StrE(RoleArnNested), StrE(RoleArnEmpty), StrE(ServiceEc2), IntE}

TrustDocs ==
    {AllowAws(ListF(v)) : v \in SeqsUpTo(TrustElems, MaxTrusted)}
        \cup {AllowAws(StrF(RoleArnA)),
              AllowAws(ListF(<<DictE(<<ROLE>>)>>)),
              AllowAws(ListF(<<DictE(<<"k">>), StrE(RoleArnD)>>)),
              Doc("list", <<Stmt("Deny", "map", StrF(RoleArnD), AbsentF)>>),
              Doc("map", <<Stmt("Allow", "map", StrF(RoleArnD), AbsentF)>>)}

RoleListings ==
    Listings({RawRole(n, d, PowerUser) : n \in Names, d \in TrustDocs}
                 \cup {RawRole(n, d, ReadOnly) :
                          n \in Names,
                          d \in {NoneDoc, AllowAws(StrF(RoleArnD)),
                                  AllowAws(ListF(<<IntE>>))}},
             MaxRoles)

NotParsed == [done |-> FALSE, trusted |-> <<>>, warned |-> FALSE, raised |-> FALSE]

ScannerIdle ==
    /\ pc = "init"
    /\ scans = 0
    /\ users = <<>>
    /\ roles = <<>>
    /\ groups = <<>>
    /\ admin_entities = {}
    /\ privilege_paths = <<>>
    /\ collected = [users |-> <<>>, roles |-> <<>>, groups |-> <<>>]
    /\ base = 0
    /\ graph = EmptyGraph

InitParse ==
    /\ ScannerIdle
    /\ doc \in DocPool
    /\ parsed = NotParsed
    /\ viz = FreshVisualizer

\* scanner._parse_trust_policy(doc)
ParseCall ==
    /\ ~parsed.done
    /\ LET r == ParseTrustPolicy(doc)
       IN  parsed' = [done |-> TRUE, trusted |-> r.trusted,
                      warned |-> r.warned, raised |-> r.raised]
    /\ UNCHANGED <<doc, scannerVars, viz>>

NextParse == ParseCall

SpecParse == InitParse /\ [][NextParse]_vars

-----------------------------------------------------------------------------
(* Specifications *)

Init ==
    /\ ScannerIdle
    /\ doc = NoneDoc
    /\ parsed = NotParsed
    /\ viz = FreshVisualizer

\* main(): one scan_all of an account with many users and groups.
Next ==
    \/ ScanUsers(UserListings, ScansOfMain)
    \/ ScanRoles(FewRoleListings)
    \/ ScanGroups(GroupListings)
    \/ IdentifyAdmin
    \/ BuildPaths
    \/ BuildGraph
    \/ VisualizerMain

Spec == Init /\ [][Next]_vars

\* main(): one scan_all of an account with many roles and trust policies.
NextTrust ==
    \/ ScanUsers(FewUserListings, ScansOfMain)
    \/ ScanRoles(RoleListings)
    \/ ScanGroups(FewGroupListings)
    \/ IdentifyAdmin
    \/ BuildPaths
    \/ BuildGraph
    \/ VisualizerMain

SpecTrust == Init /\ [][NextTrust]_vars

\* scan_all invoked repeatedly on one scanner.
NextRescan ==
    \/ ScanUsers(FewUserListings, MaxScans)
    \/ ScanRoles(FewRoleListings)
    \/ ScanGroups(FewGroupListings)
    \/ IdentifyAdmin
    \/ BuildPaths
    \/ BuildGraph
    \/ VisualizerMain

SpecRescan == Init /\ [][NextRescan]_vars

-----------------------------------------------------------------------------
(* Vocabulary of the properties *)

Range(s) == {s[i] : i \in 1..Len(s)}

\* The scan has classified its entities.
Classified == pc \in {"build", "returned", "raised", "graphed"}

\* _build_privilege_paths has run (to its end or to an exception).
Derived == pc \in {"returned", "raised", "graphed"}

\* Name and policy names of every scanned entity, of every type.
Scanned ==
    {[name |-> e.name, type |-> e.type, policies |-> e.policies] : e \in Range(users)}
        \cup {[name |-> e.name, type |-> e.type, policies |-> e.policies] : e \in Range(roles)}
        \cup {[name |-> e.name, type |-> e.type, policies |-> e.policies] : e \in Range(groups)}

\* At least one of the entity's own policy names is an admin policy name.
OwnAdminPolicy(e) ==
    Range(e.policies) \cap {"AdministratorAccess", "PowerUserAccess", "IAMFullAccess"} # {}

PathsOfType(t) == {k \in 1..Len(privilege_paths) : privilege_paths[k].type = t}

-----------------------------------------------------------------------------
(* C1 *)

\* C1: every record of privilege_paths has a path of at least 2 names whose
\* last element is a member of admin_entities.
C1_PathsEndInAdmin ==
    \A k \in 1..Len(privilege_paths) :
        LET p == privilege_paths[k].path
        IN  Len(p) >= 2 /\ p[Len(p)] \in admin_entities

\* A derivation that emitted a user path and a role-chain path.
C1_Witness ==
    /\ pc = "returned"
    /\ PathsOfType("user_to_group_admin") # {}
    /\ PathsOfType("role_chain_admin") # {}
    /\ \E r \in Range(roles) : r.name \notin admin_entities /\ r.trusted_entities # <<>>

-----------------------------------------------------------------------------
(* C2 *)

\* C2 as stated: once the entities are classified, every scanned entity is
\* in admin_entities iff one of its own policy names is an admin policy
\* name, entities that share a name with an entity of another type included.
C2_OwnPolicyIff ==
    Classified => \A e \in Scanned : e.name \in admin_entities <=> OwnAdminPolicy(e)

\* C2 amended: a name is in admin_entities iff at least one scanned entity of
\* that name, of any type, has an admin policy name among its own policies;
\* so the equivalence of C2 holds for every entity whose name no other
\* scanned entity bears.
C2_NameIff ==
    Classified =>
        /\ \A n \in admin_entities \cup {e.name : e \in Scanned} :
              n \in admin_entities <=> \E e \in Scanned : e.name = n /\ OwnAdminPolicy(e)
        /\ \A e \in Scanned :
              (\A o \in Scanned : o.name = e.name => o = e)
                  => (e.name \in admin_entities <=> OwnAdminPolicy(e))

\* A classified scan with an admin entity of a name of its own, a non-admin
\* entity of a name of its own whose policy list is not empty, and an entity
\* classified through its second policy name.
C2_Witness ==
    /\ Classified
    /\ \E a, b \in Scanned :
          /\ a.name # b.name
          /\ Cardinality({e \in Scanned : e.name \in {a.name, b.name}}) = 2
          /\ OwnAdminPolicy(a) /\ a.name \in admin_entities
          /\ b.policies # <<>> /\ b.name \notin admin_entities
    /\ \E e \in Scanned : Len(e.policies) = 2 /\ e.policies[1] = "ReadOnlyAccess"
                             /\ e.name \in admin_entities

-----------------------------------------------------------------------------
(* C3 *)

\* A trusted principal that is a string containing ':role/'.
RoleString(e) == e.k = "str" /\ ROLE \in Range(e.s)

\* The substring after the last ':role/': the remainder without ':role/'.
Candidate(e) ==
    CHOOSE c \in {SubSeq(e.s, i + 1, Len(e.s)) : i \in {j \in 1..Len(e.s) : e.s[j] = ROLE}} :
        ROLE \notin Range(c)

\* A principal on which "':role/' in x" or "x.split" raises.
NotSearchable(e) == e.k = "int" \/ (e.k = "dict" /\ ROLE \in Range(e.s))

RoleChainEmitted(c, rname) ==
    \E k \in 1..Len(privilege_paths) :
        /\ privilege_paths[k].type = "role_chain_admin"
        /\ privilege_paths[k].path = <<c, rname>>
        /\ privilege_paths[k].risk = "CRITICAL"

\* The derivation meets no unsearchable principal before principal j of role i.
ReachedBy(i, j) ==
    \A i2 \in 1..i : roles[i2].name \in admin_entities =>
        \A j2 \in 1..Len(roles[i2].trusted_entities) :
            (i2 < i \/ j2 < j) => ~NotSearchable(roles[i2].trusted_entities[j2])

\* C3 as stated: a derivation that returns has emitted [candidate, role.name],
\* role_chain_admin, CRITICAL, for every role in admin_entities and every
\* trusted principal containing ':role/', and no other role_chain_admin path.
C3_EveryRolePrincipal ==
    pc \in {"returned", "graphed"} =>
        /\ \A r \in Range(roles) : r.name \in admin_entities =>
              \A t \in Range(r.trusted_entities) :
                  RoleString(t) => RoleChainEmitted(Candidate(t), r.name)
        /\ \A k \in PathsOfType("role_chain_admin") :
              \E r \in Range(roles) : \E t \in Range(r.trusted_entities) :
                  /\ r.name \in admin_entities /\ RoleString(t)
                  /\ privilege_paths[k].path = <<Candidate(t), r.name>>

\* C3 amended: the path is emitted for every such principal whose candidate
\* (the substring after the last ':role/') is not empty and that the
\* derivation reaches, which is every one when the derivation returns; no
\* role_chain_admin path is emitted for a role outside admin_entities, for a
\* principal without ':role/' or for one that ends in ':role/'.
C3_NonEmptyCandidates ==
    Derived =>
        /\ \A i \in 1..Len(roles) : roles[i].name \in admin_entities =>
              \A j \in 1..Len(roles[i].trusted_entities) :
                  LET t == roles[i].trusted_entities[j]
                  IN  (RoleString(t) /\ Candidate(t) # <<>> /\ ReachedBy(i, j))
                          => RoleChainEmitted(Candidate(t), roles[i].name)
        /\ pc # "raised" => \A i \in 1..Len(roles) : ReachedBy(i, Len(roles[i].trusted_entities) + 1)
        /\ \A k \in PathsOfType("role_chain_admin") :
              /\ privilege_paths[k].risk = "CRITICAL"
              /\ \E r \in Range(roles) : \E t \in Range(r.trusted_entities) :
                    /\ r.name \in admin_entities /\ RoleString(t)
                    /\ Candidate(t) # <<>>
                    /\ privilege_paths[k].path = <<Candidate(t), r.name>>

\* An admin role whose principal names a role that was never scanned and
\* holds ':role/' twice; the path was emitted.
C3_Witness ==
    /\ pc = "returned"
    /\ \E r \in Range(roles) : \E t \in Range(r.trusted_entities) :
          /\ r.name \in admin_entities
          /\ RoleString(t)
          /\ Cardinality({j \in 1..Len(t.s) : t.s[j] = ROLE}) = 2
          /\ Candidate(t) \notin {x.name : x \in Range(roles)}
          /\ RoleChainEmitted(Candidate(t), r.name)

-----------------------------------------------------------------------------
(* C4 *)

UserPathsFor(n, g) ==
    {k \in PathsOfType("user_to_group_admin") : privilege_paths[k].path = <<n, g>>}

MembershipEntries(n, g) ==
    {e \in {<<i, j>> : i \in 1..Len(users), j \in 1..MaxMemberships + 1} :
        /\ e[2] <= Len(users[e[1]].groups)
        /\ users[e[1]].name = n
        /\ users[e[1]].groups[e[2]] = g}

\* C4: the user_to_group_admin paths are [user.name, group_name], risk HIGH,
\* one for each entry group_name of a user's groups list that is in
\* admin_entities, and none for a group name outside admin_entities.
C4_UserGroupPaths ==
    Derived =>
        /\ \A k \in PathsOfType("user_to_group_admin") :
              /\ privilege_paths[k].risk = "HIGH"
              /\ \E u \in Range(users) : \E g \in Range(u.groups) :
                    privilege_paths[k].path = <<u.name, g>>
        /\ \A u \in Range(users) : \A g \in Range(u.groups) :
              Cardinality(UserPathsFor(u.name, g)) =
                  IF g \in admin_entities
                  THEN Cardinality(MembershipEntries(u.name, g)) ELSE 0

\* A user in two groups, the second of them the only one in admin_entities.
C4_Witness ==
    /\ Derived
    /\ \E u \in Range(users) :
          /\ Len(u.groups) = 2
          /\ u.groups[1] \notin admin_entities
          /\ u.groups[2] \in admin_entities
          /\ UserPathsFor(u.name, u.groups[2]) # {}

-----------------------------------------------------------------------------
(* C5 *)

\* What the input asks the derivation to emit, each emission named by its
\* place in the input: <<0, i, j>> is entry j of the groups of user i,
\* <<1, i, j>> is trusted principal j of role i.
Emissions ==
    {e \in {<<0, i, j>> : i \in 1..Len(users), j \in 1..MaxMemberships + 1} :
        /\ e[3] <= Len(users[e[2]].groups)
        /\ users[e[2]].groups[e[3]] \in admin_entities}
    \cup
    {e \in {<<1, i, j>> : i \in 1..Len(roles), j \in 1..MaxTrusted + 1} :
        /\ e[3] <= Len(roles[e[2]].trusted_entities)
        /\ roles[e[2]].name \in admin_entities
        /\ RoleString(roles[e[2]].trusted_entities[e[3]])
        /\ Candidate(roles[e[2]].trusted_entities[e[3]]) # <<>>}

\* Users before roles, then list order, then order within the entity.
Precedes(a, b) ==
    \/ a[1] < b[1]
    \/ a[1] = b[1] /\ a[2] < b[2]
    \/ a[1] = b[1] /\ a[2] = b[2] /\ a[3] < b[3]

Rank(e) == 1 + Cardinality({x \in Emissions : Precedes(x, e)})

EmissionType(e) == IF e[1] = 0 THEN "user_to_group_admin" ELSE "role_chain_admin"

EmissionPath(e) ==
    IF e[1] = 0
    THEN <<users[e[2]].name, users[e[2]].groups[e[3]]>>
    ELSE <<Candidate(roles[e[2]].trusted_entities[e[3]]), roles[e[2]].name>>

\* C5: the paths one derivation appends are the emissions of its input in
\* the order of the input: user paths before role paths, users and roles in
\* list order, groups and principals in their order within the entity.  The
\* sequence is thus a function of the input; a derivation that raises has
\* appended a prefix of it.
C5_InputOrder ==
    Derived =>
        LET n == Len(privilege_paths) - base
        IN  /\ n <= Cardinality(Emissions)
            /\ pc # "raised" => n = Cardinality(Emissions)
            /\ \A e \in Emissions : Rank(e) <= n =>
                  /\ privilege_paths[base + Rank(e)].type = EmissionType(e)
                  /\ privilege_paths[base + Rank(e)].path = EmissionPath(e)

\* Two users with paths, one of them with two, and two roles with paths.
C5_Witness ==
    /\ pc = "returned"
    /\ \E e \in Emissions : e[1] = 0 /\ e[2] = 2 /\ e[3] = 2
    /\ \E e \in Emissions : e[1] = 0 /\ e[2] = 1
    /\ \E e \in Emissions : e[1] = 1 /\ e[2] = 1
    /\ \E e \in Emissions : e[1] = 1 /\ e[2] = 2 /\ e[3] = 2
    /\ Len(privilege_paths) >= 5

-----------------------------------------------------------------------------
(* C6 *)

\* C6: what scan_all returns contains only what this invocation collected
\* and derived: the entity lists are the lists it read, every admin name is
\* the name of an entity it read, and the path list held nothing when its
\* derivation began.
C6_LatestScanOnly ==
    pc = "returned" =>
        /\ users = collected.users
        /\ roles = collected.roles
        /\ groups = collected.groups
        /\ admin_entities \subseteq
              {e.name : e \in Range(collected.users)}
                  \cup {e.name : e \in Range(collected.roles)}
                  \cup {e.name : e \in Range(collected.groups)}
        /\ base = 0

-----------------------------------------------------------------------------
(* C7 *)

EdgeTag(u, v) ==
    {e.relationship : e \in {x \in graph.edges : x.src = u /\ x.dst = v}}

\* No name is borne by two scanned entities.
NamesUnique == \A a, b \in Scanned : a.name = b.name => a = b

\* Every group a user belongs to was scanned as a group.
MembershipsScanned ==
    \A u \in Range(users) : \A g \in Range(u.groups) :
        \E x \in Range(groups) : x.name = g

\* C7: in the returned graph every user u and every entry g of its groups
\* list are joined by an edge (u, g) whose relationship is member_of,
\* whether or not g is in admin_entities (stated here for the accounts in
\* which no two entities share a name and every membership names a scanned
\* group).
C7_MemberOfEdges ==
    (pc = "graphed" /\ NamesUnique /\ MembershipsScanned) =>
        \A u \in Range(users) : \A g \in Range(u.groups) :
            EdgeTag(u.name, g) = {"member_of"}

-----------------------------------------------------------------------------
(* C10 *)

\* C10: no exception leaves _build_privilege_paths, whatever trust documents
\* the trusted_entities of the roles were parsed from.
C10_DerivationNeverRaises == pc # "raised"

-----------------------------------------------------------------------------
(* C8 *)

\* The statements of the parsed document (one, when Statement is a single
\* statement object).
DocStatements == IF doc.k = "map" THEN doc.stmts ELSE <<>>

IsAllow(st) == st.k = "map" /\ st.effect = "Allow"

\* What a value under AWS or Service lists: the string itself, the elements
\* of a list, the keys of a mapping.
Listed(f) ==
    CASE f.k = "str" -> <<StrE(f.s)>>
      [] f.k \in {"list", "dict"} -> f.v
      [] OTHER -> <<>>

\* The AWS and Service principals of a statement.
StmtPrincipals(st) ==
    IF st.k = "map" /\ st.pk = "map"
    THEN Range(Listed(st.aws)) \cup Range(Listed(st.service))
    ELSE {}

\* A value the parser cannot handle: a statement that is no mapping, the
\* Principal None, a number under AWS or Service (None and a string Principal
\* naming AWS behave likewise).
BadField(f) == f.k = "int"
Unexpected(st) ==
    \/ st.k # "map"
    \/ IsAllow(st) /\ (st.pk = "none"
                        \/ (st.pk = "map" /\ (BadField(st.aws) \/ BadField(st.service))))

\* Statement i and all statements before it have the expected shape, in a
\* document whose Statement is a list.
ExpectedUpTo(i) ==
    /\ doc.k = "map" /\ doc.sk = "list"
    /\ \A m \in 1..i : ~Unexpected(doc.stmts[m])

OnlyFromAllow ==
    \A x \in Range(parsed.trusted) :
        \E st \in Range(DocStatements) : IsAllow(st) /\ x \in StmtPrincipals(st)

\* C8 as stated: the result holds principals of Allow statements only, and
\* every AWS and Service principal of every Allow statement.
C8_AllowOnlyAndAll ==
    parsed.done =>
        /\ OnlyFromAllow
        /\ \A st \in Range(DocStatements) :
              IsAllow(st) => StmtPrincipals(st) \subseteq Range(parsed.trusted)

\* C8 amended: the result holds principals of Allow statements only, and
\* every AWS and Service principal of every Allow statement up to which the
\* document has the expected shape; the parser stops at the first unexpected
\* part, and the principals of Allow statements after it are not collected.
C8_AllowOnlyAndReached ==
    parsed.done =>
        /\ OnlyFromAllow
        /\ \A i \in 1..Len(DocStatements) :
              (IsAllow(doc.stmts[i]) /\ ExpectedUpTo(i))
                  => StmtPrincipals(doc.stmts[i]) \subseteq Range(parsed.trusted)

\* A Deny statement whose principal is left out, next to an Allow statement
\* whose AWS and Service principals are both in the result.
C8_Witness ==
    /\ parsed.done
    /\ Len(DocStatements) = 2
    /\ \E i, j \in 1..2 :
          /\ doc.stmts[i].k = "map" /\ doc.stmts[i].effect = "Deny"
          /\ StmtPrincipals(doc.stmts[i]) # {}
          /\ StmtPrincipals(doc.stmts[i]) \cap Range(parsed.trusted) = {}
          /\ IsAllow(doc.stmts[j])
          /\ Listed(doc.stmts[j].aws) # <<>> /\ Listed(doc.stmts[j].service) # <<>>
          /\ StmtPrincipals(doc.stmts[j]) \subseteq Range(parsed.trusted)

-----------------------------------------------------------------------------
(* C9 *)

\* What a statement of the expected shape contributes.
Contribution(st) ==
    IF IsAllow(st) /\ st.pk = "map" THEN Listed(st.aws) \o Listed(st.service) ELSE <<>>

RECURSIVE Contributions(_, _)
Contributions(stmts, n) ==
    IF n = 0 THEN <<>> ELSE Contributions(stmts, n - 1) \o Contribution(stmts[n])

\* The number of leading statements of the expected shape.
ExpectedPrefix ==
    IF doc.k = "map" /\ doc.sk = "list"
    THEN CHOOSE n \in 0..Len(doc.stmts) :
            /\ ExpectedUpTo(n)
            /\ n < Len(doc.stmts) => Unexpected(doc.stmts[n + 1])
    ELSE 0

\* The document has a part of an unexpected shape.
Malformed ==
    \/ doc.k # "map"
    \/ doc.sk = "int"
    \/ doc.sk = "map" /\ doc.stmts[1] # EmptyStmt
    \/ doc.sk = "list" /\ ExpectedPrefix < Len(doc.stmts)

\* In the first unexpected statement, the AWS principals read before an
\* unexpected Service value was met.
ReadBeforeFailure ==
    IF doc.k = "map" /\ doc.sk = "list" /\ ExpectedPrefix < Len(doc.stmts)
    THEN LET st == doc.stmts[ExpectedPrefix + 1]
         IN  IF IsAllow(st) /\ st.pk = "map" /\ ~BadField(st.aws)
             THEN Listed(st.aws) ELSE <<>>
    ELSE <<>>

\* C9: _parse_trust_policy raises for no document; it returns the principals
\* collected before the first unexpected part (none if the document or its
\* Statement value is itself of an unexpected type), with a warning exactly
\* when there is such a part.
C9_NeverRaises ==
    parsed.done =>
        /\ ~parsed.raised
        /\ parsed.warned <=> Malformed
        /\ parsed.trusted = Contributions(DocStatements, ExpectedPrefix) \o ReadBeforeFailure

\* A document with an unexpected part after a well-formed Allow statement:
\* the call returned the principals of that statement.
C9_Witness ==
    /\ parsed.done
    /\ parsed.warned
    /\ ~parsed.raised
    /\ parsed.trusted # <<>>
    /\ ExpectedPrefix = 1

-----------------------------------------------------------------------------
(* C11 *)

\* The positions of the result at which principal x stands.
Occurrences(x) == {i \in 1..Len(parsed.trusted) : parsed.trusted[i] = x}

\* C11: the result of _parse_trust_policy has set semantics: every trusted
\* principal stands in it at most once, also when it is listed in several
\* Allow statements or under both the AWS and the Service key.
C11_AtMostOnce ==
    parsed.done =>
        \A x \in Range(parsed.trusted) : Cardinality(Occurrences(x)) = 1

-----------------------------------------------------------------------------
(* C12 *)

ScannedNames == {e.name : e \in Scanned}

HasEdge(u, v) == \E e \in graph.edges : e.src = u /\ e.dst = v

\* The nodes that stand for no scanned entity.
Placeholders == {x \in graph.nodes : x.name \notin ScannedNames}

\* C12: build_privilege_graph keeps every edge whose endpoint is no scanned
\* entity and adds the missing endpoint as a node, for member_of edges and
\* for the edges of privilege paths alike: every membership and every step of
\* every path is an edge, every endpoint of every edge is a node, and a node
\* that stands for no scanned entity carries no attributes.
C12_EndpointsAreNodes ==
    pc = "graphed" =>
        /\ \A u \in Range(users) : \A g \in Range(u.groups) : HasEdge(u.name, g)
        /\ \A p \in Range(privilege_paths) :
              \A i \in 1..(Len(p.path) - 1) : HasEdge(p.path[i], p.path[i + 1])
        /\ \A e \in graph.edges : HasNode(graph, e.src) /\ HasNode(graph, e.dst)
        /\ \A x \in Placeholders : x = BareNode(x.name)

\* A membership in a group that was not scanned and a privilege path from a
\* role that was not scanned: both edges are in the graph, their missing
\* endpoints are nodes without attributes.
C12_Witness ==
    /\ pc = "graphed"
    /\ \E u \in Range(users) : \E g \in Range(u.groups) :
          /\ g \notin ScannedNames
          /\ EdgeTag(u.name, g) = {"member_of"}
          /\ BareNode(g) \in graph.nodes
    /\ \E p \in Range(privilege_paths) :
          /\ p.path[1] \notin ScannedNames
          /\ EdgeTag(p.path[1], p.path[2]) = {"privilege_escalation"}
          /\ BareNode(p.path[1]) \in graph.nodes

-----------------------------------------------------------------------------
(* C14 *)

\* The same value of Principal.AWS in the other form: a single string s as
\* the one-element list [s], and the list [s] as the single string s.
OtherForm(f) ==
    IF f.k = "str" THEN ListF(<<StrE(f.s)>>) ELSE StrF(f.v[1].s)

\* Principal.AWS of statement i is a single string or a list of one string.
HasOtherForm(i) ==
    /\ doc.k = "map"
    /\ i \in 1..Len(doc.stmts)
    /\ doc.stmts[i].k = "map"
    /\ LET f == doc.stmts[i].aws
       IN  \/ f.k = "str"
           \/ f.k = "list" /\ Len(f.v) = 1 /\ f.v[1].k = "str"

\* The document with Principal.AWS of statement i in the other form.
Reformed(i) == [doc EXCEPT !.stmts[i].aws = OtherForm(@)]

\* C14: a document and the document that differs from it only in that
\* Principal.AWS of one statement is the single string s instead of the
\* one-element list [s], or the reverse, are parsed to equal results.
C14_StringAsSingleton ==
    parsed.done =>
        \A i \in 1..MaxStmts :
            HasOtherForm(i) => ParseTrustPolicy(Reformed(i)).trusted = parsed.trusted

\* A document of two Allow statements, one naming its AWS principal as a
\* string and one as a one-element list, both in the result.
C14_Witness ==
    /\ parsed.done
    /\ ~parsed.warned
    /\ Len(DocStatements) = 2
    /\ \E i, j \in 1..2 :
          /\ HasOtherForm(i) /\ IsAllow(doc.stmts[i]) /\ doc.stmts[i].pk = "map"
          /\ doc.stmts[i].aws.k = "str"
          /\ HasOtherForm(j) /\ IsAllow(doc.stmts[j]) /\ doc.stmts[j].pk = "map"
          /\ doc.stmts[j].aws.k = "list"
          /\ Len(parsed.trusted) >= 2

-----------------------------------------------------------------------------
(* C15 *)

\* The visualizer's graph has the edge (t, r) tagged can_assume.
CanAssume(t, r) ==
    [src |-> t, dst |-> r, relationship |-> "can_assume"] \in viz.graph.edges

\* C15: after create_graph on a fresh instance, for every role r and every
\* trusted principal of r that contains ':role/' with suffix t, the edge
\* (t, r) tagged can_assume is in the graph if and only if t is the name of a
\* scanned entity, wherever r and t stand in the roles list (stated here for
\* the accounts in which no two entities share a name and every membership
\* names a scanned group).
C15_AssumeEdgeIffScanned ==
    (viz.created /\ ~viz.raised /\ NamesUnique /\ MembershipsScanned) =>
        \A r \in Range(roles) : \A e \in Range(r.trusted_entities) :
            RoleString(e) => (CanAssume(Candidate(e), r.name)
                                <=> Candidate(e) \in ScannedNames)

====
